---------------------------- MODULE Spec2Model ----------------------------
(***************************************************************************)
(* A model of m2ee/pgutil.py: the PostgreSQL helpers of m2ee-tools.        *)
(*                                                                         *)
(* Two groups of operations are modelled.                                  *)
(*   - the subprocess-backed helpers dumpdb, restoredb, psql,              *)
(*     pg_stat_database, pg_stat_activity and pg_table_index_size, each    *)
(*     one atomic action whose inputs are what the child process does      *)
(*     (whether it starts, its exit status, its two output streams);       *)
(*   - emptydb, modelled statement by statement over a small catalog of    *)
(*     relations, with the connection's transaction kept apart from the    *)
(*     committed database.                                                 *)
(*                                                                         *)
(* Byte strings and text are sequences of one-character strings.           *)
(***************************************************************************)
EXTENDS Integers, Sequences, FiniteSets, TLC

VARIABLES
    \* ---- subprocess-backed helpers
    op,        \* the helper that ran last ("none" before the first call)
    inp,       \* what the environment did during that call
    res,       \* how the call ended: a return value or a raised exception
    events,    \* the side effects of the call, in order
    fs,        \* dump directory: file name -> content
    fsBefore,  \* fs as it was when the last call started
    \* ---- emptydb
    pc,        \* position inside emptydb
    db,        \* committed catalog: the relations that exist
    tx,        \* the catalog as the open transaction sees it
    dbAtCall,  \* db when the running call started
    todo,      \* nsp_rel_tuples not yet dropped by the running loop
    conn,      \* counters of the call: connections opened/closed, commits
    stmts,     \* statements the cursor executed successfully, in order
    failed,    \* the statement that raised, and the error it raised
    pending,   \* the exception in flight
    wres       \* how the last emptydb call ended

procVars == <<op, inp, res, events, fs, fsBefore>>
wipeVars == <<pc, db, tx, dbAtCall, todo, conn, stmts, failed, pending, wres>>
vars == <<op, inp, res, events, fs, fsBefore,
          pc, db, tx, dbAtCall, todo, conn, stmts, failed, pending, wres>>

(***************************************************************************)
(* Bounds of the model.                                                    *)
(***************************************************************************)
\* rows a modelled query result holds at most
MaxRows == 2
\* the largest integer a modelled result cell holds
MaxCell == 12

(***************************************************************************)
(* Python's bytes and str operations, as pgutil.py uses them.              *)
(***************************************************************************)
Digits == <<"0", "1", "2", "3", "4", "5", "6", "7", "8", "9">>
DigitSet == {Digits[i] : i \in 1..10}
DigitVal(c) == (CHOOSE i \in 1..10 : Digits[i] = c) - 1
IsSpace(c) == c \in {" ", "\n", "\t", "\r"}

RECURSIVE LStrip(_)
LStrip(b) == IF b # <<>> /\ IsSpace(Head(b)) THEN LStrip(Tail(b)) ELSE b

RECURSIVE RStrip(_)
RStrip(b) ==
    IF b # <<>> /\ IsSpace(b[Len(b)]) THEN RStrip(SubSeq(b, 1, Len(b) - 1)) ELSE b

\* bytes.strip(): leading and trailing whitespace removed
Strip(b) == RStrip(LStrip(b))

\* position of the first c in b, 0 when there is none
IndexOf(b, c) ==
    IF \E i \in 1..Len(b) : b[i] = c
    THEN CHOOSE i \in 1..Len(b) : b[i] = c /\ \A j \in 1..(i - 1) : b[j] # c
    ELSE 0

\* bytes.split(sep) with a one-byte separator: never the empty list
RECURSIVE Split(_, _)
Split(b, sep) ==
    LET i == IndexOf(b, sep)
    IN  IF i = 0 THEN <<b>>
        ELSE <<SubSeq(b, 1, i - 1)>> \o Split(SubSeq(b, i + 1, Len(b)), sep)

\* SplitLines gone wrong: split(b'\n'), which keeps the empty last piece
SplitLinesKeepLast(b) == Split(b, "\n")

\* bytes.splitlines(): no line for the text after the last line break
RECURSIVE SplitLines(_)
SplitLines(b) ==
    LET i == IndexOf(b, "\n")
    IN  IF b = <<>> THEN <<>>
        ELSE IF i = 0 THEN <<b>>
        ELSE <<SubSeq(b, 1, i - 1)>> \o SplitLines(SubSeq(b, i + 1, Len(b)))

RECURSIVE DigitsValue(_)
DigitsValue(d) ==
    IF d = <<>> THEN 0
    ELSE 10 * DigitsValue(SubSeq(d, 1, Len(d) - 1)) + DigitVal(d[Len(d)])

\* int(b): surrounding whitespace and one sign are accepted; anything else
\* than digits, and no digits at all, is a ValueError (ok = FALSE)
PyInt(b) ==
    LET s == Strip(b)
        signed == s # <<>> /\ s[1] \in {"-", "+"}
        body == IF signed THEN Tail(s) ELSE s
        good == body # <<>> /\ \A i \in 1..Len(body) : body[i] \in DigitSet
    IN  [ok |-> good,
         val |-> IF ~good THEN 0
                 ELSE IF signed /\ s[1] = "-" THEN 0 - DigitsValue(body)
                 ELSE DigitsValue(body)]

\* [int(x) for x in pieces]: the list, or ValueError at the first bad piece
IntList(pieces) ==
    [ok |-> \A i \in 1..Len(pieces) : PyInt(pieces[i]).ok,
     val |-> [i \in 1..Len(pieces) |-> PyInt(pieces[i]).val]]

\* one character of repr(bytes)
EscapeByte(c) ==
    CASE c = "\n" -> <<"\\", "n">>
      [] c = "\t" -> <<"\\", "t">>
      [] c = "\r" -> <<"\\", "r">>
      [] OTHER -> <<c>>

RECURSIVE EscapeBytes(_)
EscapeBytes(b) ==
    IF b = <<>> THEN <<>> ELSE EscapeByte(Head(b)) \o EscapeBytes(Tail(b))

\* "%s" % b for a bytes object b: str(b), the literal b'...'
BytesStr(b) == <<"b", "'">> \o EscapeBytes(b) \o <<"'">>

\* fmt % args with args a tuple: every item needs a conversion of its own
PercentTuple(nspecs, args) ==
    [ok |-> Len(args) = nspecs,
     val |-> IF Len(args) = nspecs THEN args ELSE <<>>]


(***************************************************************************)
(* Query results and how "psql -At" prints them: unaligned, tuples only,   *)
(* the cells of a row joined by "|", a NULL printed as nothing, one line   *)
(* per row.                                                                *)
(***************************************************************************)
NullCell == [k |-> "null", n |-> 0, s |-> <<>>]
IntCell(v) == [k |-> "int", n |-> v, s |-> <<>>]
TextCell(t) == [k |-> "text", n |-> 0, s |-> t]

RECURSIVE IntBytes(_)
IntBytes(v) ==
    IF v < 10 THEN <<Digits[v + 1]>>
    ELSE IntBytes(v \div 10) \o <<Digits[(v % 10) + 1]>>

RenderCell(c) ==
    CASE c.k = "null" -> <<>>
      [] c.k = "int" -> IntBytes(c.n)
      [] OTHER -> c.s

RECURSIVE RenderRow(_)
RenderRow(row) ==
    IF row = <<>> THEN <<>>
    ELSE IF Len(row) = 1 THEN RenderCell(row[1])
    ELSE RenderCell(row[1]) \o <<"|">> \o RenderRow(Tail(row))

RECURSIVE Render(_)
Render(rows) ==
    IF rows = <<>> THEN <<>>
    ELSE RenderRow(Head(rows)) \o <<"\n">> \o Render(Tail(rows))

\* connection states as pg_stat_activity names them (shortened)
StateNames == {<<"i">>, <<"a">>, <<"i", " ", "t">>}
CellInts == {1, MaxCell}

\* rows of "SELECT count(*), state ... GROUP BY 2": the state may be NULL
ActivityRows ==
    {<<IntCell(v), TextCell(s)>> : v \in CellInts, s \in StateNames}
        \cup {<<IntCell(1), NullCell>>}

\* rows of a statistics query, also with a column short, one too many
\* and a cell that is no number
CounterRows ==
    {[i \in 1..w |-> IntCell(i)] : w \in 4..6}
        \cup {[i \in 1..5 |-> IF i = 3 THEN TextCell(<<"x">>) ELSE IntCell(i)]}

\* rows of the two sums: numbers, or NULL when they run over no table
SizeRows == {<<IntCell(MaxCell), IntCell(1)>>, <<NullCell, NullCell>>}

RowPool == ActivityRows \cup CounterRows \cup SizeRows

QueryResults == UNION {[1..m -> RowPool] : m \in 0..MaxRows}

(***************************************************************************)
(* What a child process can do.                                            *)
(***************************************************************************)
Launches == {"started", "FileNotFoundError", "PermissionError"}
ErrorStreams == {<<>>, <<"e">>, <<" ", "e", "\n">>, <<"\n">>, <<"e", "\n", "r">>}
ExitCodes == {0, 1}
DumpNames == {"a.backup", "b.backup"}
\* what is in a dump file: nothing on disk, an earlier dump, the empty file
\* a fresh open leaves, and what pg_dump wrote into it
Written == {"empty", "dump"}

NoInput ==
    [launch |-> "started", rc |-> 0, rows |-> <<>>, stdout |-> <<>>,
     stderr |-> <<>>, openOk |-> TRUE, name |-> "a.backup", written |-> "empty"]

Return(l, m) ==
    [kind |-> "return", exc |-> "none", msg |-> <<>>, cause |-> "none",
     context |-> "none", list |-> l, map |-> m]

Raise(e, m, c, x) ==
    [kind |-> "raise", exc |-> e, msg |-> m, cause |-> c,
     context |-> x, list |-> <<>>, map |-> {}]

DumpCmd == <<"pg_dump", "-O", "-x", "-F", "c">>
RestoreCmd(name) ==
    <<"pg_restore", "-d", "PGDATABASE", "-O", "-n", "public", "-x", name>>
PsqlCmd == <<"psql">>
QueryCmd(query) == <<"psql", "-At", "-c", query>>

\* except OSError as e: raise M2EEException(prefix % cmd, e).  cmd is a
\* tuple, so "%s" % cmd is a TypeError unless cmd has exactly one item.
OSErrorHandler(prefix, cmd, e) ==
    LET f == PercentTuple(1, cmd)
    IN  IF f.ok THEN Raise("M2EEException", <<prefix>> \o f.val, e, e)
        ELSE Raise("TypeError",
                   <<"not all arguments converted during string formatting">>,
                   "none", e)

\* StderrFailure gone wrong: the error text goes in as it was read
StderrFailureUnstripped(prefix, stderr) ==
    Raise("M2EEException", <<prefix>> \o BytesStr(stderr), "none", "none")

\* if len(stderr) != 0: raise M2EEException(prefix % stderr.strip())
StderrFailure(prefix, stderr) ==
    Raise("M2EEException", <<prefix>> \o BytesStr(Strip(stderr)), "none", "none")

(***************************************************************************)
(* dumpdb.  The dump file is opened 'w+' while the arguments of Popen are  *)
(* evaluated, so before the child is started; the child writes into it.    *)
(***************************************************************************)
\* OpenForDump gone wrong: mode 'a+', which keeps what the file holds
OpenForAppend(content) == IF content = "absent" THEN "empty" ELSE content

\* open(db_dump_file_name, 'w+'): created when absent, truncated otherwise
OpenForDump(content) == "empty"

\* the child's standard output lands in the opened file
ChildWrites(opened, written) == IF written = "empty" THEN opened ELSE written

DumpdbFile(content, i) ==
    IF ~i.openOk THEN content
    ELSE IF i.launch # "started" THEN OpenForDump(content)
    ELSE ChildWrites(OpenForDump(content), i.written)

DumpdbEvents(i) ==
    IF ~i.openOk THEN <<>>
    ELSE IF i.launch # "started" THEN <<"open", "spawn failed">>
    ELSE <<"open", "spawn", "communicate">>

DumpdbOutcome(i) ==
    IF ~i.openOk
    THEN OSErrorHandler("Database dump failed, cmd: ", DumpCmd, "FileNotFoundError")
    ELSE IF i.launch # "started"
    THEN OSErrorHandler("Database dump failed, cmd: ", DumpCmd, i.launch)
    ELSE IF Len(i.stderr) # 0
    THEN StderrFailure("An error occured while creating database dump: ", i.stderr)
    ELSE Return(<<>>, {})

(***************************************************************************)
(* restoredb and psql.                                                     *)
(***************************************************************************)
RestoredbOutcome(i) ==
    IF i.launch # "started"
    THEN OSErrorHandler("Database restore failed, cmd: ", RestoreCmd(i.name), i.launch)
    ELSE IF Len(i.stderr) # 0
    THEN StderrFailure("An error occured while doing database restore: ", i.stderr)
    ELSE Return(<<>>, {})

\* subprocess.call: the child inherits the streams, its status is dropped
PsqlOutcome(i) ==
    IF i.launch # "started"
    THEN OSErrorHandler("An error occured while calling psql, cmd: ", PsqlCmd, i.launch)
    ELSE Return(<<>>, {})

(***************************************************************************)
(* The three statistics helpers.                                           *)
(***************************************************************************)
\* return [int(x) for x in stdout.split(b'|')]
IntFields(out) ==
    LET l == IntList(Split(out, "|"))
    IN  IF l.ok THEN Return(l.val, {})
        ELSE Raise("ValueError", <<"invalid literal for int()">>, "none", "none")

PgStatDatabaseOutcome(i) ==
    IF i.launch # "started"
    THEN OSErrorHandler("Retrieving pg_stat_database info failed, cmd: ",
                        QueryCmd("pg_stat_database"), i.launch)
    ELSE IF Len(i.stderr) # 0
    THEN StderrFailure("Retrieving pg_stat_database info failed: ", i.stderr)
    ELSE IntFields(i.stdout)

\* d[k] = v on a dict kept as a set of <<key, value>> pairs
DictPut(d, k, v) == {p \in d : p[1] # k} \cup {<<k, v>>}

\* for count, state in [line.split(b'|')]: two pieces exactly, and int(count)
LineOk(line) ==
    LET parts == Split(line, "|")
    IN  Len(parts) = 2 /\ PyInt(parts[1]).ok

\* the dict comprehension over the lines, a later line replacing an earlier
\* one of the same state; state.decode() keeps the characters
RECURSIVE ActivityDict(_, _)
ActivityDict(lines, d) ==
    IF lines = <<>> THEN d
    ELSE LET parts == Split(Head(lines), "|")
         IN  ActivityDict(Tail(lines), DictPut(d, parts[2], PyInt(parts[1]).val))

ActivityParse(out) ==
    LET lines == SplitLines(out)
    IN  IF \A k \in 1..Len(lines) : LineOk(lines[k])
        THEN Return(<<>>, ActivityDict(lines, {}))
        ELSE Raise("ValueError", <<"cannot unpack or convert a line">>, "none", "none")

PgStatActivityOutcome(i) ==
    IF i.launch # "started"
    THEN OSErrorHandler("Retrieving pg_stat_activity info failed, cmd: ",
                        QueryCmd("pg_stat_activity"), i.launch)
    ELSE IF Len(i.stderr) # 0
    THEN StderrFailure("Retrieving pg_stat_activity info failed: ", i.stderr)
    ELSE ActivityParse(i.stdout)

\* output = subprocess.check_output(cmd, env=env): no try around it, the
\* error stream is not captured, a non-zero status is CalledProcessError
PgTableIndexSizeOutcome(i) ==
    IF i.launch # "started"
    THEN Raise(i.launch, <<"psql">>, "none", "none")
    ELSE IF i.rc # 0
    THEN Raise("CalledProcessError", <<"non-zero exit status">>, "none", "none")
    ELSE IntFields(i.stdout)

(***************************************************************************)
(* The calls, each with what the environment may do during it.             *)
(***************************************************************************)
\* a child that did not start has no status and wrote nothing
ChildInputs ==
    {[NoInput EXCEPT !.launch = l] : l \in Launches \ {"started"}}
        \cup {[NoInput EXCEPT !.rc = c, !.stderr = e]
                 : c \in ExitCodes, e \in ErrorStreams}

QueryInputs ==
    {[NoInput EXCEPT !.launch = l] : l \in Launches \ {"started"}}
        \cup {[NoInput EXCEPT !.rc = c, !.stderr = e, !.rows = r,
                               !.stdout = Render(r)]
                 : c \in ExitCodes, e \in ErrorStreams, r \in QueryResults}

Called(name, i, r, ev, f) ==
    /\ op' = name
    /\ inp' = i
    /\ res' = r
    /\ events' = ev
    /\ fsBefore' = fs
    /\ fs' = f
    /\ UNCHANGED wipeVars

\* a call starts when the caller is done with the one before
Dumpdb ==
    /\ op = "none"
    /\ \E i \in ChildInputs, n \in DumpNames, o \in BOOLEAN, w \in Written :
           LET j == IF ~o THEN [NoInput EXCEPT !.openOk = FALSE, !.name = n]
                    ELSE IF i.launch # "started" THEN [i EXCEPT !.name = n]
                    ELSE [i EXCEPT !.name = n, !.written = w]
           IN  Called("dumpdb", j, DumpdbOutcome(j), DumpdbEvents(j),
                      [fs EXCEPT ![n] = DumpdbFile(fs[n], j)])

Restoredb ==
    /\ op = "none"
    /\ \E i \in ChildInputs, n \in DumpNames :
           LET j == [i EXCEPT !.name = n]
           IN  Called("restoredb", j, RestoredbOutcome(j),
                      IF j.launch = "started" THEN <<"spawn", "communicate">>
                      ELSE <<"spawn failed">>, fs)

\* the child of psql() inherits the caller's streams: nothing is captured
Psql ==
    /\ op = "none"
    /\ \E i \in {x \in ChildInputs : x.stderr = <<>>} :
           Called("psql", i, PsqlOutcome(i),
                  IF i.launch = "started" THEN <<"spawn", "wait">>
                  ELSE <<"spawn failed">>, fs)

PgStatDatabase ==
    /\ op = "none"
    /\ \E i \in QueryInputs :
           Called("pg_stat_database", i, PgStatDatabaseOutcome(i),
                  IF i.launch = "started" THEN <<"spawn", "communicate">>
                  ELSE <<"spawn failed">>, fs)

PgStatActivity ==
    /\ op = "none"
    /\ \E i \in QueryInputs :
           Called("pg_stat_activity", i, PgStatActivityOutcome(i),
                  IF i.launch = "started" THEN <<"spawn", "communicate">>
                  ELSE <<"spawn failed">>, fs)

PgTableIndexSize ==
    /\ op = "none"
    /\ \E i \in QueryInputs :
           Called("pg_table_index_size", i, PgTableIndexSizeOutcome(i),
                  IF i.launch = "started" THEN <<"spawn", "wait">>
                  ELSE <<"spawn failed">>, fs)

\* the caller takes the outcome; the helpers keep nothing between two
\* calls, only the dump directory stays as it is
Returned ==
    /\ op # "none"
    /\ op' = "none"
    /\ inp' = NoInput
    /\ res' = Return(<<>>, {})
    /\ events' = <<>>
    /\ fsBefore' = fs
    /\ UNCHANGED fs
    /\ UNCHANGED wipeVars

NextProc ==
    \/ Dumpdb
    \/ Restoredb
    \/ Psql
    \/ PgStatDatabase
    \/ PgStatActivity
    \/ PgTableIndexSize
    \/ Returned

(***************************************************************************)
(* The catalog emptydb works on.  A relation is a table (relkind 'r') or   *)
(* a sequence (relkind 'S') of a schema; dep names the table it goes away  *)
(* with (a sequence owned by a column, a table that inherits).             *)
(***************************************************************************)
Rel(nsp, name, kind, dep) == [nsp |-> nsp, name |-> name, kind |-> kind, dep |-> dep]
NoDep == <<>>

\* pg_catalog is searched first, whatever search_path says
SearchPath == <<"pg_catalog", "app", "public">>

SystemTable == Rel("pg_catalog", "pg_class", "r", NoDep)

Universe ==
    {SystemTable,
     Rel("public", "t", "r", NoDep),
     Rel("public", "t_id_seq", "S", <<"public", "t">>),
     Rel("public", "c", "r", <<"public", "t">>),
     Rel("public", "s", "S", NoDep),
     Rel("app", "t", "r", NoDep),
     Rel("app", "s", "S", NoDep),
     Rel("hidden", "h", "r", NoDep)}

Ident(r) == <<r.nsp, r.name>>

\* a catalog holds the system tables and, with a relation, what it hangs on
Catalogs ==
    {c \in SUBSET Universe :
        /\ SystemTable \in c
        /\ \A r \in c : r.dep # NoDep => \E t \in c : Ident(t) = r.dep}

PathIndex(nsp) ==
    IF \E i \in 1..Len(SearchPath) : SearchPath[i] = nsp
    THEN CHOOSE i \in 1..Len(SearchPath) : SearchPath[i] = nsp
    ELSE 0

\* pg_table_is_visible: the schema is in the search path and no relation of
\* the same name stands in a schema searched earlier
Visible(r, cat) ==
    /\ PathIndex(r.nsp) # 0
    /\ \A x \in cat :
          x.name = r.name /\ PathIndex(x.nsp) # 0 => PathIndex(x.nsp) >= PathIndex(r.nsp)

\* SELECT n.nspname, c.relname ... WHERE relkind = kind AND n.nspname NOT IN
\* ('pg_catalog', 'pg_toast') AND pg_table_is_visible(c.oid)
CatalogQuery(kind, cat) ==
    {Ident(r) : r \in {x \in cat : /\ x.kind = kind
                                   /\ x.nsp \notin {"pg_catalog", "pg_toast"}
                                   /\ Visible(x, cat)}}

\* the relations that go away with those of S
RECURSIVE Dependents(_, _)
Dependents(S, cat) ==
    LET more == S \cup {x \in cat : x.dep \in {Ident(y) : y \in S}}
    IN  IF more = S THEN S ELSE Dependents(more, cat)

\* DROP TABLE / DROP SEQUENCE <ident> CASCADE on a relation that exists
Dropped(kind, ident, cat) ==
    cat \ Dependents({x \in cat : Ident(x) = ident /\ x.kind = kind}, cat)

Exists(kind, ident, cat) == \E x \in cat : Ident(x) = ident /\ x.kind = kind

\* fetchall() hands the rows over in an order the server picks
Orders(S) ==
    {f \in [1..Cardinality(S) -> S] : \A i, j \in 1..Cardinality(S) : f[i] = f[j] => i = j}

(***************************************************************************)
(* emptydb, one action per statement.                                      *)
(***************************************************************************)
DbErrors == {"OperationalError", "UndefinedTable"}
\* what a statement may do besides succeeding
Faults == {"OperationalError", "KeyboardInterrupt"}

NoConn == [opened |-> 0, closed |-> 0, commitCalls |-> 0, committed |-> 0]
NoFailure == [stmt |-> "none", err |-> "none"]
NoException == Return(<<>>, {})
Running ==
    [kind |-> "running", exc |-> "none", msg |-> <<>>, cause |-> "none",
     context |-> "none", list |-> <<>>, map |-> {}]

\* HandlerFor gone wrong: the commit sits in the finally clause
HandlerCommitsAnyway(e) == "commit"

\* where an exception raised inside the try block goes: the except clause
\* takes psycopg2.Error, everything else passes on to the finally clause
HandlerFor(e) == IF e \in DbErrors THEN "except" ELSE "finally"

\* FinallyCloses gone wrong: close() written after commit(), in the try
ClosesAfterCommitOnly(p) == p.kind # "raise"

\* finally: conn.close(), whatever is in flight
FinallyCloses(p) == TRUE

Raised(stmt, e) ==
    /\ failed' = [stmt |-> stmt, err |-> e]
    /\ pending' = Raise(e, <<e>>, "none", "none")
    /\ pc' = HandlerFor(e)
    /\ UNCHANGED <<db, tx, dbAtCall, todo, conn, stmts, wres>>

\* conn = open_pg_connection(config), outside the try
EmptydbOpen ==
    /\ pc = "idle"
    /\ dbAtCall' = db
    /\ todo' = <<>>
    /\ stmts' = <<>>
    /\ failed' = NoFailure
    /\ pending' = NoException
    /\ tx' = db
    /\ UNCHANGED db
    /\ \E o \in {"connected", "no psycopg2", "OperationalError"} :
          CASE o = "connected" ->
                 /\ conn' = [NoConn EXCEPT !.opened = 1]
                 /\ wres' = Running
                 /\ pc' = "qtables"
            [] o = "no psycopg2" ->
                 /\ conn' = NoConn
                 /\ wres' = Raise("M2EEException", <<"Failed to import psycopg2">>,
                                  "none", "none")
                 /\ pc' = "idle"
            [] OTHER ->
                 /\ conn' = NoConn
                 /\ wres' = Raise("M2EEException",
                                  <<"Opening database connection failed: ", o>>, o, o)
                 /\ pc' = "idle"
    /\ UNCHANGED procVars

EmptydbQueryTables ==
    /\ pc = "qtables"
    /\ \/ \E order \in Orders(CatalogQuery("r", tx)) :
             /\ todo' = order
             /\ stmts' = Append(stmts, <<"SELECT", "r", "">>)
             /\ pc' = IF order = <<>> THEN "qseqs" ELSE "droptables"
             /\ UNCHANGED <<db, tx, dbAtCall, conn, failed, pending, wres>>
       \/ \E e \in Faults : Raised("SELECT r", e)
    /\ UNCHANGED procVars

EmptydbDropTable ==
    /\ pc = "droptables"
    /\ todo # <<>>
    /\ \/ /\ Exists("r", Head(todo), tx)
          /\ tx' = Dropped("r", Head(todo), tx)
          /\ todo' = Tail(todo)
          /\ stmts' = Append(stmts, <<"DROP TABLE">> \o Head(todo))
          /\ pc' = IF Tail(todo) = <<>> THEN "qseqs" ELSE "droptables"
          /\ UNCHANGED <<db, dbAtCall, conn, failed, pending, wres>>
       \/ /\ ~Exists("r", Head(todo), tx)
          /\ Raised("DROP TABLE", "UndefinedTable")
       \/ \E e \in Faults : Raised("DROP TABLE", e)
    /\ UNCHANGED procVars

EmptydbQuerySequences ==
    /\ pc = "qseqs"
    /\ \/ \E order \in Orders(CatalogQuery("S", tx)) :
             /\ todo' = order
             /\ stmts' = Append(stmts, <<"SELECT", "S", "">>)
             /\ pc' = IF order = <<>> THEN "commit" ELSE "dropseqs"
             /\ UNCHANGED <<db, tx, dbAtCall, conn, failed, pending, wres>>
       \/ \E e \in Faults : Raised("SELECT S", e)
    /\ UNCHANGED procVars

EmptydbDropSequence ==
    /\ pc = "dropseqs"
    /\ todo # <<>>
    /\ \/ /\ Exists("S", Head(todo), tx)
          /\ tx' = Dropped("S", Head(todo), tx)
          /\ todo' = Tail(todo)
          /\ stmts' = Append(stmts, <<"DROP SEQUENCE">> \o Head(todo))
          /\ pc' = IF Tail(todo) = <<>> THEN "commit" ELSE "dropseqs"
          /\ UNCHANGED <<db, dbAtCall, conn, failed, pending, wres>>
       \/ \E e \in Faults : Raised("DROP SEQUENCE", e)
    /\ UNCHANGED procVars

\* conn.commit(), the last statement of the try block
EmptydbCommit ==
    /\ pc = "commit"
    /\ \/ /\ db' = tx
          /\ conn' = [conn EXCEPT !.commitCalls = @ + 1, !.committed = @ + 1]
          /\ pc' = "finally"
          /\ UNCHANGED <<tx, dbAtCall, todo, stmts, failed, pending, wres>>
       \/ \E e \in Faults :
             /\ conn' = [conn EXCEPT !.commitCalls = @ + 1]
             /\ failed' = [stmt |-> "COMMIT", err |-> e]
             /\ pending' = Raise(e, <<e>>, "none", "none")
             /\ pc' = HandlerFor(e)
             /\ UNCHANGED <<db, tx, dbAtCall, todo, stmts, wres>>
    /\ UNCHANGED procVars

\* except psycopg2.Error as pe: raise M2EEException(...format(pe)) from pe
EmptydbExcept ==
    /\ pc = "except"
    /\ pending' = Raise("M2EEException", <<"Emptying database failed: ", pending.exc>>,
                        pending.exc, pending.exc)
    /\ pc' = "finally"
    /\ UNCHANGED <<db, tx, dbAtCall, todo, conn, stmts, failed, wres>>
    /\ UNCHANGED procVars

\* finally: conn.close(); what was not committed is gone with the connection
EmptydbFinally ==
    /\ pc = "finally"
    /\ conn' = IF FinallyCloses(pending) THEN [conn EXCEPT !.closed = @ + 1] ELSE conn
    /\ tx' = db
    /\ wres' = pending
    /\ pc' = "idle"
    /\ UNCHANGED <<db, dbAtCall, todo, stmts, failed, pending>>
    /\ UNCHANGED procVars

NextWipe ==
    \/ EmptydbOpen
    \/ EmptydbQueryTables
    \/ EmptydbDropTable
    \/ EmptydbQuerySequences
    \/ EmptydbDropSequence
    \/ EmptydbCommit
    \/ EmptydbExcept
    \/ EmptydbFinally

\* the helpers before their first call, over a dump directory that holds an
\* earlier dump under one name and nothing under the other; emptydb at rest
InitProc ==
    /\ op = "none"
    /\ inp = NoInput
    /\ res = Return(<<>>, {})
    /\ events = <<>>
    /\ fs = [n \in DumpNames |-> IF n = "a.backup" THEN "old" ELSE "absent"]
    /\ fsBefore = fs
    /\ pc = "idle"
    /\ db = {SystemTable}
    /\ tx = db
    /\ dbAtCall = db
    /\ todo = <<>>
    /\ conn = NoConn
    /\ stmts = <<>>
    /\ failed = NoFailure
    /\ pending = NoException
    /\ wres = Running

\* emptydb before its first call, over any catalog; the helpers at rest
InitWipe ==
    /\ pc = "idle"
    /\ db \in Catalogs
    /\ tx = db
    /\ dbAtCall = db
    /\ todo = <<>>
    /\ conn = NoConn
    /\ stmts = <<>>
    /\ failed = NoFailure
    /\ pending = NoException
    /\ wres = Running
    /\ op = "none"
    /\ inp = NoInput
    /\ res = Return(<<>>, {})
    /\ events = <<>>
    /\ fs = [n \in DumpNames |-> "absent"]
    /\ fsBefore = fs

SpecProc == InitProc /\ [][NextProc]_vars
SpecWipe == InitWipe /\ [][NextWipe]_vars

(***************************************************************************)
(* The claims about the subprocess-backed helpers, under SpecProc.         *)
(***************************************************************************)
Started == op # "none" /\ inp.launch = "started"
CapturingOps == {"dumpdb", "restoredb", "pg_stat_database", "pg_stat_activity"}
StreamOps == CapturingOps \cup {"pg_table_index_size"}

\* t is b without its leading and trailing whitespace
IsStripOf(t, b) ==
    /\ t = <<>> \/ (~IsSpace(t[1]) /\ ~IsSpace(t[Len(t)]))
    /\ \E i \in 1..(Len(b) + 1), j \in 0..Len(b) :
          /\ t = SubSeq(b, i, j)
          /\ \A k \in 1..Len(b) : (k < i \/ k > j) => IsSpace(b[k])

\* t stands in s, unchanged and in one piece
Contains(s, t) ==
    \E i \in 1..(Len(s) - Len(t) + 1) : SubSeq(s, i, i + Len(t) - 1) = t

\* C3 as claimed: in dumpdb, restoredb, pg_stat_database, pg_stat_activity
\* and pg_table_index_size alike, a non-empty error stream makes the call
\* fail with M2EEException whose message holds the error text verbatim,
\* whatever the exit status, and an empty error stream never does.
C3_StderrFailsVerbatim ==
    (Started /\ op \in StreamOps) =>
        /\ inp.stderr # <<>> =>
              /\ res.kind = "raise"
              /\ res.exc = "M2EEException"
              /\ Contains(Tail(res.msg), inp.stderr)
        /\ inp.stderr = <<>> => res.exc # "M2EEException"

\* C3 as amended: in dumpdb, restoredb, pg_stat_database and pg_stat_activity
\* a non-empty error stream makes the call fail with M2EEException, whatever
\* the exit status, and the message holds the bytes literal of the error
\* text with its leading and trailing whitespace stripped; an empty error
\* stream never gives that failure; pg_table_index_size does not read the
\* error stream and never fails with M2EEException.
C3_StderrFailsStripped ==
    /\ (Started /\ op \in CapturingOps) =>
          /\ inp.stderr # <<>> =>
                /\ res.kind = "raise"
                /\ res.exc = "M2EEException"
                /\ \E t \in {SubSeq(inp.stderr, i, j) :
                                i \in 1..(Len(inp.stderr) + 1), j \in 0..Len(inp.stderr)} :
                      /\ IsStripOf(t, inp.stderr)
                      /\ Tail(res.msg) = BytesStr(t)
          /\ inp.stderr = <<>> => res.exc # "M2EEException"
    /\ op = "pg_table_index_size" => res.exc # "M2EEException"

C3_Witness ==
    /\ op = "dumpdb"
    /\ inp.launch = "started"
    /\ inp.rc = 0
    /\ inp.stderr = <<" ", "e", "\n">>
    /\ res.exc = "M2EEException"
    /\ Tail(res.msg) = <<"b", "'", "e", "'">>

\* C4: whenever the binary of a subprocess-backed helper cannot be started,
\* the call fails with M2EEException carrying the OS error and the command;
\* no other exception reaches the caller.
C4_LaunchFailureWrapped ==
    (op # "none" /\ inp.launch # "started") =>
        /\ res.kind = "raise"
        /\ res.exc = "M2EEException"
        /\ res.cause = inp.launch
        /\ Len(res.msg) > 1

\* C5: pg_stat_database returns five integers, the cells of the one row in
\* their order, whenever it returns; for any other output (no row, a column
\* short or too many, a cell that is no integer) it fails with M2EEException.
C5_FiveCountersOrStatsError ==
    (Started /\ op = "pg_stat_database" /\ inp.stderr = <<>>) =>
        /\ res.kind = "return" =>
              /\ Len(res.list) = 5
              /\ Len(inp.rows) = 1
              /\ Len(inp.rows[1]) = 5
              /\ \A k \in 1..5 : inp.rows[1][k].k = "int" /\ res.list[k] = inp.rows[1][k].n
        /\ ~(/\ Len(inp.rows) = 1
             /\ Len(inp.rows[1]) = 5
             /\ \A k \in 1..5 : inp.rows[1][k].k = "int")
              => (res.kind = "raise" /\ res.exc = "M2EEException")

\* C7: pg_table_index_size fails with M2EEException, and with nothing else,
\* when psql exits with a non-zero status or its output is not one line of
\* two integers.
C7_SizeFailureIsStatsError ==
    (Started /\ op = "pg_table_index_size") =>
        ((\/ inp.rc # 0
          \/ Len(inp.rows) # 1
          \/ \E r \in {inp.rows[k] : k \in 1..Len(inp.rows)} :
                Len(r) # 2 \/ \E c \in 1..Len(r) : r[c].k # "int")
            => (res.kind = "raise" /\ res.exc = "M2EEException"))

\* C8: pg_table_index_size returns [0, 0] and does not raise when both sums
\* are NULL, which psql prints as two empty fields.
C8_NullSumsAreZero ==
    (Started /\ op = "pg_table_index_size" /\ inp.rc = 0
        /\ inp.rows = <<<<NullCell, NullCell>>>>)
        => (res.kind = "return" /\ res.list = <<0, 0>>)

\* the rows of a GROUP BY over the state: a count and a state each, no
\* state twice
IsActivityResult(rows) ==
    /\ \A k \in 1..Len(rows) :
          /\ Len(rows[k]) = 2
          /\ rows[k][1].k = "int"
          /\ rows[k][2].k \in {"text", "null"}
    /\ \A k, l \in 1..Len(rows) : rows[k][2] = rows[l][2] => k = l

\* C9: for output made of lines <count>|<state>, pg_stat_activity returns a
\* mapping with one key per line, each state mapped to the count of its
\* line, and no key for a state without a line; one idle and no active
\* connection give idle -> 1 and no active key; no output gives the empty
\* mapping.
C9_OneKeyPerStateLine ==
    (Started /\ op = "pg_stat_activity" /\ inp.stderr = <<>>
        /\ IsActivityResult(inp.rows)) =>
        /\ res.kind = "return"
        /\ res.map = {<<inp.rows[k][2].s, inp.rows[k][1].n>> : k \in 1..Len(inp.rows)}
        /\ Cardinality({p[1] : p \in res.map}) = Len(inp.rows)
        /\ Cardinality(res.map) = Len(inp.rows)
        /\ \A s \in StateNames :
              (\A k \in 1..Len(inp.rows) : inp.rows[k][2].s # s)
                  => ~\E p \in res.map : p[1] = s
        /\ inp.rows = <<<<IntCell(1), TextCell(<<"i">>)>>>> => res.map = {<<(<<"i">>), 1>>}
        /\ inp.rows = <<>> => res.map = {}

C9_Witness ==
    /\ op = "pg_stat_activity"
    /\ inp.launch = "started"
    /\ inp.stderr = <<>>
    /\ inp.stdout = <<"1", "2", "|", "i", "\n", "1", "|", "i", " ", "t", "\n">>
    /\ res.kind = "return"
    /\ res.map = {<<(<<"i">>), 12>>, <<(<<"i", " ", "t">>), 1>>}

\* C10: dumpdb opens the dump file for writing, truncating it, before the
\* dump binary is started: after every call that got as far as the launch
\* the file exists; when such a call fails, a dump that was there under the
\* same name is overwritten; no call removes a file or touches another one.
C10_DumpFileTruncatedFirst ==
    op = "dumpdb" =>
        /\ inp.openOk =>
              /\ Len(events) >= 2 /\ events[1] = "open"
              /\ fs[inp.name] # "absent"
              /\ (res.kind = "raise" /\ fsBefore[inp.name] = "old")
                    => fs[inp.name] \in Written
              /\ inp.launch # "started" => fs[inp.name] = "empty"
        /\ \A n \in DumpNames :
              /\ fsBefore[n] # "absent" => fs[n] # "absent"
              /\ n # inp.name => fs[n] = fsBefore[n]

C10_Witness ==
    /\ op = "dumpdb"
    /\ inp.openOk
    /\ inp.launch = "FileNotFoundError"
    /\ fsBefore[inp.name] = "old"
    /\ fs[inp.name] = "empty"
    /\ res.kind = "raise"

(***************************************************************************)
(* The claims about emptydb, under SpecWipe.                               *)
(***************************************************************************)
Finished == pc = "idle" /\ wres.kind # "running"
BodyStatements == {"SELECT r", "DROP TABLE", "SELECT S", "DROP SEQUENCE"}
Drops == {k \in 1..Len(stmts) : stmts[k][1] \in {"DROP TABLE", "DROP SEQUENCE"}}
Executed(s) == \E k \in 1..Len(stmts) : stmts[k] = s

\* C1: emptydb commits if and only if the table query, every table drop, the
\* sequence query and every sequence drop succeeded.  Once one of them has
\* raised, commit is never called and the database stays as it was when the
\* call started; when what it raised is a database error the call ends with
\* M2EEException carrying that error.
C1_CommitOnlyIfAllSucceeded ==
    /\ failed.stmt \in BodyStatements =>
          /\ conn.commitCalls = 0
          /\ db = dbAtCall
          /\ (Finished /\ failed.err \in DbErrors) =>
                /\ wres.kind = "raise"
                /\ wres.exc = "M2EEException"
                /\ wres.cause = failed.err
    /\ conn.commitCalls > 0 =>
          /\ conn.commitCalls = 1
          /\ failed.stmt \in {"none", "COMMIT"}
          /\ Executed(<<"SELECT", "r", "">>)
          /\ Executed(<<"SELECT", "S", "">>)
          /\ todo = <<>>
    /\ (Finished /\ conn.opened = 1 /\ failed.stmt = "none") =>
          /\ conn.committed = 1
          /\ wres.kind = "return"
    /\ db # dbAtCall => conn.committed = 1

C1_Witness ==
    /\ Finished
    /\ failed = [stmt |-> "DROP SEQUENCE", err |-> "OperationalError"]
    /\ \E k \in 1..Len(stmts) : stmts[k][1] = "DROP TABLE"
    /\ conn.commitCalls = 0
    /\ wres.exc = "M2EEException"
    /\ wres.cause = "OperationalError"

\* C2: a connection emptydb opened is closed exactly once by the time the
\* call returns or raises, whichever way it ends, and stays open until then;
\* when the connection cannot be opened no statement is executed and the
\* call fails with M2EEException.
C2_ConnectionClosedOnce ==
    /\ conn.opened \in {0, 1}
    /\ conn.closed <= conn.opened
    /\ pc # "idle" => (conn.opened = 1 /\ conn.closed = 0)
    /\ pc = "idle" => conn.closed = conn.opened
    /\ (Finished /\ conn.opened = 0) =>
          /\ stmts = <<>>
          /\ failed = NoFailure
          /\ conn.commitCalls = 0
          /\ wres.kind = "raise"
          /\ wres.exc = "M2EEException"

C2_Witness ==
    /\ Finished
    /\ wres.exc = "KeyboardInterrupt"
    /\ failed.stmt = "DROP TABLE"
    /\ conn.opened = 1
    /\ conn.closed = 1

\* C6: after an emptydb that returns normally no table and no sequence is
\* visible in the search path any more, also where a table took a sequence
\* it owned away with it; and an emptydb that finds neither returns
\* normally without a single drop.
C6_WipeLeavesNothingVisible ==
    (Finished /\ wres.kind = "return") =>
        /\ CatalogQuery("r", db) = {}
        /\ CatalogQuery("S", db) = {}
        /\ (CatalogQuery("r", dbAtCall) = {} /\ CatalogQuery("S", dbAtCall) = {})
              => Drops = {}

=============================================================================
